---- MODULE Spec2Model ----
(***************************************************************************)
(* neo4j-request (src/src/index.ts): the module-level state (config,       *)
(* driver, multiDBSupport), init/connect with its retry timers, the three  *)
(* transaction helpers, and the record normaliser.  The neo4j-driver       *)
(* library is the environment: every call into it that returns a promise   *)
(* settles either way, and every call that can throw may throw.            *)
(***************************************************************************)
EXTENDS Integers, Sequences, FiniteSets, TLC

(* ------------------------------------------------------------------ *)
(* Bounds of the model                                                 *)
(* ------------------------------------------------------------------ *)
MaxInits == 2

MaxCalls == 2

MaxStatements == 3

MaxFaults == 2

MaxVerifyFaults == 6

\* elements of an array value
MaxElems == 2

\* records of a record sequence
MaxRecords == 2

\* successive calls of removeEmptyArrays on the same data
MaxPrunes == 2

(* ------------------------------------------------------------------ *)
(* Program constants                                                   *)
(* ------------------------------------------------------------------ *)
\* init: connect(5)
InitialTrials == 5

\* init: +matches[1] > 3
MultiDBMajor == 3

NotInitialized == "Neo4j driver not initialized!"

(* ------------------------------------------------------------------ *)
(* Strings as character sequences, and the version regular expression  *)
(* ------------------------------------------------------------------ *)
Digits == <<"0", "1", "2", "3", "4", "5", "6", "7", "8", "9">>

IsDigit(c) == \E d \in 1..10 : Digits[d] = c

DigitVal(c) == (CHOOSE d \in 1..10 : Digits[d] = c) - 1

RECURSIVE ToNumber(_)
\* unary plus on a string of decimal digits
ToNumber(s) ==
    IF s = <<>> THEN 0
    ELSE 10 * ToNumber(SubSeq(s, 1, Len(s) - 1)) + DigitVal(s[Len(s)])

DigitsRun(s, a, b) == a <= b /\ b <= Len(s) /\ \A i \in a..b : IsDigit(s[i])

VersionPrefix == <<"N", "e", "o", "4", "j", "/">>

\* the tail  .\d+.\d+  of the pattern matches at position p of s
TailMatches(s, p) ==
    \E a \in (p + 1)..(Len(s) - 2) : DigitsRun(s, p + 1, a) /\ IsDigit(s[a + 2])

\* the positions where the group (\d+) can end with the rest still matching
MajorEnds(s) ==
    {k \in 7..Len(s) : DigitsRun(s, 7, k) /\ TailMatches(s, k + 1)}

SetMax(S) == CHOOSE x \in S : \A y \in S : y <= x

\* /^Neo4j\/(\d+).\d+.\d+/.exec(version): the captured group, or "null"
VersionMatch(s) ==
    IF Len(s) >= 6 /\ SubSeq(s, 1, 6) = VersionPrefix /\ MajorEnds(s) # {}
    THEN [matched |-> TRUE, major |-> SubSeq(s, 7, SetMax(MajorEnds(s)))]
    ELSE [matched |-> FALSE, major |-> <<>>]

(* ------------------------------------------------------------------ *)
(* The environment: servers, init arguments, queries                   *)
(* ------------------------------------------------------------------ *)
Urls == {"bolt://v3", "bolt://v4", "bolt://dev"}

ServerVersion(url) ==
    CASE url = "bolt://v3" -> <<"N", "e", "o", "4", "j", "/", "3", ".", "5", ".", "1", "2">>
      [] url = "bolt://v4" -> <<"N", "e", "o", "4", "j", "/", "4", ".", "0", ".", "2">>
      [] OTHER -> <<"N", "e", "o", "4", "j", "/", "d", "e", "v">>

ServerInfoOf(url) == [address |-> url, version |-> ServerVersion(url)]

NoOptions == [k \in {} |-> TRUE]

\* the (url, user, password, database, options) tuples init is called with
InitArgs ==
    { [url |-> "bolt://v3", user |-> "u3", password |-> "p3",
       database |-> "neo4j", options |-> NoOptions],
      [url |-> "bolt://v4", user |-> "u4", password |-> "p4",
       database |-> "graph", options |-> [disableLosslessIntegers |-> FALSE]],
      [url |-> "bolt://dev", user |-> "ud", password |-> "pd",
       database |-> "neo4j", options |-> NoOptions] }

(* ------------------------------------------------------------------ *)
(* JavaScript values: every value is [t |-> type tag, v |-> payload].  *)
(* A native number and a driver Integer carry their decimal digits, a  *)
(* string its characters, an array a sequence of values, an object and *)
(* a Node's properties a function from keys to values.                 *)
(* ------------------------------------------------------------------ *)
Null == [t |-> "null", v |-> <<>>]

Undefined == [t |-> "undefined", v |-> <<>>]

Str(chars) == [t |-> "string", v |-> chars]

Num(digits) == [t |-> "number", v |-> digits]

Integer(digits) == [t |-> "Integer", v |-> digits]

Arr(elems) == [t |-> "array", v |-> elems]

Obj(fields) == [t |-> "object", v |-> fields]

Node(props) == [t |-> "Node", v |-> [identity |-> Integer(<<"0">>), properties |-> props]]

\* a temporal or spatial value, carrying the text its toString() returns
Temporal(tag, text) == [t |-> tag, v |-> [text |-> text]]

Rec(keys, fields) == [t |-> "Record", v |-> [keys |-> keys, fields |-> fields]]

\* the temporal types without the spatial one
TemporalNotSpatial ==
    {"Date", "DateTime", "LocalTime", "LocalDateTime", "Time", "Duration"}

TemporalTags ==
    {"Date", "DateTime", "LocalTime", "LocalDateTime", "Time", "Duration", "Point"}

\* Number.MAX_SAFE_INTEGER, 2^53 - 1
MaxSafeDigits ==
    <<"9", "0", "0", "7", "1", "9", "9", "2", "5", "4", "7", "4", "0", "9", "9", "1">>

Magnitude(digits) ==
    IF digits # <<>> /\ digits[1] = "-" THEN Tail(digits) ELSE digits

RECURSIVE DigitsLeq(_, _)
\* a <= b for two digit strings of the same length
DigitsLeq(a, b) ==
    IF a = <<>> THEN TRUE
    ELSE IF DigitVal(a[1]) < DigitVal(b[1]) THEN TRUE
    ELSE IF DigitVal(a[1]) > DigitVal(b[1]) THEN FALSE
    ELSE DigitsLeq(Tail(a), Tail(b))

\* a range test that compares the number of digits only
inSafeRangeByLength(value) == Len(Magnitude(value.v)) <= Len(MaxSafeDigits)

\* neo4j.integer.inSafeRange(value)
inSafeRange(value) ==
    LET m == Magnitude(value.v)
    IN  \/ Len(m) < Len(MaxSafeDigits)
        \/ Len(m) = Len(MaxSafeDigits) /\ DigitsLeq(m, MaxSafeDigits)

\* JavaScript truthiness, as used by !data
Falsy(value) ==
    \/ value.t \in {"null", "undefined"}
    \/ value.t = "boolean" /\ value.v = FALSE
    \/ value.t = "number" /\ value.v = <<"0">>
    \/ value.t = "string" /\ value.v = <<>>

RECURSIVE convertValues(_)
convertValues(value) ==
    IF value.t = "null" THEN value
    ELSE IF value.t = "Integer"
         THEN IF inSafeRange(value) THEN Num(value.v) ELSE Str(value.v)
    ELSE IF value.t \in TemporalTags THEN Str(value.v.text)
    ELSE LET val == IF value.t = "Node" THEN Obj(value.v.properties) ELSE value
         IN  IF val.t = "array"
             THEN Arr([i \in 1..Len(val.v) |-> convertValues(val.v[i])])
             ELSE IF val.t = "object"
             THEN Obj([k \in DOMAIN val.v |-> convertValues(val.v[k])])
             ELSE val

\* record => { obj[key] = convertValues(record.get(key)) for key of record.keys }
ExtractOne(record) ==
    Obj([k \in {record.v.keys[i] : i \in 1..Len(record.v.keys)} |->
            convertValues(record.v.fields[k])])

extractRecords(data) ==
    IF Falsy(data) THEN Arr(<<>>)
    ELSE IF data.t # "array" THEN data
    ELSE Arr([i \in 1..Len(data.v) |-> ExtractOne(data.v[i])])

(* ------------------------------------------------------------------ *)
(* Objects with identity.  convertValues assigns into the objects it   *)
(* is given and removeEmptyArrays into the records it is given, so the *)
(* arrays, objects, Nodes and Records live in a heap (a sequence of    *)
(* cells, the address being the index) and a value is a scalar or a    *)
(* reference to a cell.  Integers and temporal values are immutable    *)
(* and stay scalars.                                                   *)
(* ------------------------------------------------------------------ *)
Bool(b) == [t |-> "boolean", v |-> b]

Ref(a) == [t |-> "ref", v |-> a]

IsRef(x) == x.t = "ref"

\* Array.isArray(x)
IsArray(h, x) == IsRef(x) /\ h[x.v].t = "array"

\* x instanceof neo4j.types.Node
IsNode(h, x) == IsRef(x) /\ h[x.v].t = "Node"

\* the order in which the keys of an object are enumerated
KeyOrder == <<"key", "values", "big">>

\* Object.keys(x), for...in over x
KeysOf(fields) == SelectSeq(KeyOrder, LAMBDA k : k \in DOMAIN fields)

\* [] and {} and the other literals: a fresh cell
Alloc(h, cell) == [h |-> Append(h, cell), ret |-> Ref(Len(h) + 1)]

\* the call that gave r has returned to a caller whose heap was h: statements
\* run one after the other, and no cell is ever freed
Returns(h, r) == Len(r.h) >= Len(h)

RECURSIVE Store(_, _)
RECURSIVE StoreSeq(_, _, _, _)
RECURSIVE StoreFields(_, _, _, _)
\* lays the tree value out in the heap, every array and object in its own cell
Store(h, tree) ==
    IF tree.t = "array"
    THEN LET r == StoreSeq(h, tree.v, 1, <<>>)
         IN  IF Returns(h, r) THEN Alloc(r.h, [t |-> "array", v |-> r.ret]) ELSE r
    ELSE IF tree.t = "object"
    THEN LET r == StoreFields(h, tree.v, KeysOf(tree.v), tree.v)
         IN  IF Returns(h, r) THEN Alloc(r.h, [t |-> "object", v |-> r.ret]) ELSE r
    ELSE IF tree.t = "Node"
    THEN LET r == Store(h, Obj(tree.v.properties))
         IN  IF Returns(h, r)
             THEN Alloc(r.h, [t |-> "Node",
                              v |-> [identity |-> tree.v.identity, properties |-> r.ret]])
             ELSE r
    ELSE IF tree.t = "Record"
    THEN LET r == StoreFields(h, tree.v.fields, KeysOf(tree.v.fields), tree.v.fields)
         IN  IF Returns(h, r)
             THEN Alloc(r.h, [t |-> "Record", v |-> [keys |-> tree.v.keys, fields |-> r.ret]])
             ELSE r
    ELSE [h |-> h, ret |-> tree]

StoreSeq(h, elems, i, acc) ==
    IF i > Len(elems) THEN [h |-> h, ret |-> acc]
    ELSE LET r == Store(h, elems[i])
         IN  IF Returns(h, r) THEN StoreSeq(r.h, elems, i + 1, Append(acc, r.ret)) ELSE r

StoreFields(h, fields, keys, acc) ==
    IF keys = <<>> THEN [h |-> h, ret |-> acc]
    ELSE LET r == Store(h, fields[Head(keys)])
         IN  IF Returns(h, r)
             THEN StoreFields(r.h, fields, Tail(keys), [acc EXCEPT ![Head(keys)] = r.ret])
             ELSE r

RECURSIVE Load(_, _)
\* the tree value a value of the heap stands for
Load(h, x) ==
    IF ~IsRef(x) THEN x
    ELSE LET cell == h[x.v]
         IN  IF cell.t = "array"
             THEN Arr([i \in 1..Len(cell.v) |-> Load(h, cell.v[i])])
             ELSE IF cell.t = "object"
             THEN Obj([k \in DOMAIN cell.v |-> Load(h, cell.v[k])])
             ELSE IF cell.t = "Node"
             THEN [t |-> "Node",
                   v |-> [identity |-> cell.v.identity,
                          properties |-> Load(h, cell.v.properties).v]]
             ELSE Rec(cell.v.keys, [k \in DOMAIN cell.v.fields |-> Load(h, cell.v.fields[k])])

RECURSIVE Reach(_, _)
\* the cells reachable from a value
Reach(h, x) ==
    IF ~IsRef(x) THEN {}
    ELSE LET cell == h[x.v]
             inner == IF cell.t = "array" THEN {cell.v[i] : i \in 1..Len(cell.v)}
                      ELSE IF cell.t = "object" THEN {cell.v[k] : k \in DOMAIN cell.v}
                      ELSE IF cell.t = "Node" THEN {cell.v.properties}
                      ELSE {cell.v.fields[k] : k \in DOMAIN cell.v.fields}
         IN  {x.v} \cup UNION {Reach(h, y) : y \in inner}

\* an object branch that returns a new object without copying the keys
ConvertNoKeys(h, val, keys) == Alloc(h, [t |-> "object", v |-> [k \in {} |-> Null]])

RECURSIVE convertValuesAt(_, _)
RECURSIVE MapConvert(_, _, _, _)
RECURSIVE ConvertKeys(_, _, _)
\* convertValues(value) on the heap h: the heap after the call and the value
\* returned
convertValuesAt(h, value) ==
    IF value.t = "null" THEN [h |-> h, ret |-> value]
    ELSE IF value.t = "Integer"
    THEN [h |-> h, ret |-> IF inSafeRange(value) THEN Num(value.v) ELSE Str(value.v)]
    ELSE IF value.t \in TemporalTags THEN [h |-> h, ret |-> Str(value.v.text)]
    ELSE LET val == IF IsNode(h, value) THEN h[value.v].v.properties ELSE value
         IN  IF IsArray(h, val) THEN MapConvert(h, h[val.v].v, 1, <<>>)
             ELSE IF IsRef(val) THEN ConvertKeys(h, val, KeysOf(h[val.v].v))
             ELSE [h |-> h, ret |-> val]

\* value.map(v => convertValues(v)): a new array
MapConvert(h, elems, i, acc) ==
    IF i > Len(elems) THEN Alloc(h, [t |-> "array", v |-> acc])
    ELSE LET r == convertValuesAt(h, elems[i])
         IN  IF Returns(h, r) THEN MapConvert(r.h, elems, i + 1, Append(acc, r.ret)) ELSE r

\* for (const key of Object.keys(value)) value[key] = convertValues(value[key])
ConvertKeys(h, val, keys) ==
    IF keys = <<>> THEN [h |-> h, ret |-> val]
    ELSE LET r == convertValuesAt(h, h[val.v].v[Head(keys)])
         IN  IF Returns(h, r)
             THEN ConvertKeys([r.h EXCEPT ![val.v].v[Head(keys)] = r.ret], val, Tail(keys))
             ELSE r

RECURSIVE ExtractKeysRaw(_, _, _, _)
\* record.keys.forEach(key => { obj[key] = record.get(key) })
ExtractKeysRaw(h, record, i, obj) ==
    IF i > Len(h[record.v].v.keys) THEN [h |-> h, ret |-> obj]
    ELSE LET key == h[record.v].v.keys[i]
         IN  ExtractKeysRaw([h EXCEPT ![obj.v].v = [k \in DOMAIN @ \cup {key} |->
                                IF k = key THEN h[record.v].v.fields[key] ELSE @[k]]],
                            record, i + 1, obj)

RECURSIVE ExtractKeys(_, _, _, _)
RECURSIVE ExtractMap(_, _, _, _)
\* record.keys.forEach(key => { obj[key] = convertValues(record.get(key)) })
ExtractKeys(h, record, i, obj) ==
    IF i > Len(h[record.v].v.keys) THEN [h |-> h, ret |-> obj]
    ELSE LET key == h[record.v].v.keys[i]
             r == convertValuesAt(h, h[record.v].v.fields[key])
         IN  IF Returns(h, r)
             THEN ExtractKeys([r.h EXCEPT ![obj.v].v = [k \in DOMAIN @ \cup {key} |->
                                                         IF k = key THEN r.ret ELSE @[k]]],
                              record, i + 1, obj)
             ELSE r

\* data.map(record => { const obj = {}; ...; return obj })
ExtractMap(h, records, i, acc) ==
    IF i > Len(records) THEN Alloc(h, [t |-> "array", v |-> acc])
    ELSE LET o == Alloc(h, [t |-> "object", v |-> [k \in {} |-> Null]])
             r == ExtractKeys(o.h, records[i], 1, o.ret)
         IN  IF Returns(h, r) THEN ExtractMap(r.h, records, i + 1, Append(acc, r.ret)) ELSE r

\* extractRecords(data) on the heap h
extractRecordsAt(h, data) ==
    IF Falsy(data) THEN Alloc(h, [t |-> "array", v |-> <<>>])
    ELSE IF ~IsArray(h, data) THEN [h |-> h, ret |-> data]
    ELSE ExtractMap(h, h[data.v].v, 1, <<>>)

\* x[key] for an x that is neither null nor undefined; the keys used are
\* never indices or "length", so an array or a scalar has none of them
Get(h, x, key) ==
    IF IsRef(x) /\ h[x.v].t = "object" /\ key \in DOMAIN h[x.v].v
    THEN h[x.v].v[key]
    ELSE Undefined

\* a[0] for an array a
FirstOf(h, a) == IF h[a.v].v = <<>> THEN Undefined ELSE h[a.v].v[1]

\* data[i][arrayKey] && Array.isArray(data[i][arrayKey]) && data[i][arrayKey][0]
HasFirst(h, record, arrayKey) ==
    LET a == Get(h, record, arrayKey)
    IN  ~Falsy(a) /\ IsArray(h, a) /\ ~Falsy(FirstOf(h, a))

\* data[i][arrayKey][0][checkKey] == null, which undefined satisfies too
FirstIsNullLoose(h, record, arrayKey, checkKey) ==
    Get(h, FirstOf(h, Get(h, record, arrayKey)), checkKey).t \in {"null", "undefined"}

\* data[i][arrayKey][0][checkKey] === null
FirstIsNull(h, record, arrayKey, checkKey) ==
    Get(h, FirstOf(h, Get(h, record, arrayKey)), checkKey).t = "null"

\* data[i][arrayKey] = data[i][arrayKey].slice(1)
AssignRest(h, record, arrayKey) ==
    LET e == Alloc(h, [t |-> "array", v |-> Tail(h[Get(h, record, arrayKey).v].v)])
    IN  [e.h EXCEPT ![record.v].v[arrayKey] = e.ret]

\* data[i][arrayKey] = []
AssignEmpty(h, record, arrayKey) ==
    LET e == Alloc(h, [t |-> "array", v |-> <<>>])
    IN  [e.h EXCEPT ![record.v].v[arrayKey] = e.ret]

\* a loop over no key: the arrays held by data[i] are not visited
ForInNone(h, x) == <<>>

\* the keys for (let key in x) enumerates: the keys of an object, the indices
\* of an array; those of a string index characters, which are no arrays
ForIn(h, x) ==
    IF ~IsRef(x) THEN <<>>
    ELSE IF h[x.v].t = "array" THEN [i \in 1..Len(h[x.v].v) |-> i]
    ELSE KeysOf(h[x.v].v)

RECURSIVE removeEmptyArrays(_, _, _, _)
RECURSIVE RemoveLoop(_, _, _, _, _, _)
RECURSIVE RemoveKeys(_, _, _, _, _)
\* removeEmptyArrays(data, arrayKey, checkKey) on the heap h: the heap after
\* the call, the value returned, and whether the call threw a TypeError
removeEmptyArrays(h, data, arrayKey, checkKey) ==
    RemoveLoop(h, data, arrayKey, checkKey, 1, Len(h[data.v].v))

\* for (let i = 0, l = data.length; i < l; i++)
RemoveLoop(h, data, arrayKey, checkKey, i, l) ==
    IF i > l THEN [h |-> h, ret |-> data, thrown |-> FALSE]
    ELSE LET record == h[data.v].v[i]
         IN  IF record.t \in {"null", "undefined"}
             THEN \* data[i][arrayKey] reads a property of null
                  [h |-> h, ret |-> Undefined, thrown |-> TRUE]
             ELSE LET h1 == IF /\ HasFirst(h, record, arrayKey)
                               /\ FirstIsNull(h, record, arrayKey, checkKey)
                            THEN AssignEmpty(h, record, arrayKey)
                            ELSE h
                      r == RemoveKeys(h1, record, ForIn(h1, record), arrayKey, checkKey)
                  IN  IF r.thrown THEN r
                      ELSE RemoveLoop(r.h, data, arrayKey, checkKey, i + 1, l)

\* for (let key in data[i]) if (... && Array.isArray(data[i][key])) recurse
RemoveKeys(h, record, keys, arrayKey, checkKey) ==
    IF keys = <<>> THEN [h |-> h, ret |-> record, thrown |-> FALSE]
    ELSE LET x == h[record.v].v[Head(keys)]
         IN  IF IsArray(h, x)
             THEN LET r == removeEmptyArrays(h, x, arrayKey, checkKey)
                  IN  IF r.thrown THEN r
                      ELSE RemoveKeys(r.h, record, Tail(keys), arrayKey, checkKey)
             ELSE RemoveKeys(h, record, Tail(keys), arrayKey, checkKey)

(* ------------------------------------------------------------------ *)
(* The record sequences extractRecords, convertValues and              *)
(* removeEmptyArrays are applied to: one column "key" and one column   *)
(* "values", the latter holding scalars, maps, Nodes and arrays of up  *)
(* to MaxElems elements, nested two deep.                              *)
(* ------------------------------------------------------------------ *)
\* Number.MAX_SAFE_INTEGER + 1, 2^53
AboveSafeDigits ==
    <<"9", "0", "0", "7", "1", "9", "9", "2", "5", "4", "7", "4", "0", "9", "9", "2">>

SafeIntegers ==
    {Integer(<<"7">>), Integer(MaxSafeDigits), Integer(<<"-">> \o MaxSafeDigits)}

UnsafeIntegers == {Integer(AboveSafeDigits), Integer(<<"-">> \o AboveSafeDigits)}

Scalars ==
    {Null, Bool(TRUE), Str(<<"a">>), Temporal("Date", <<"2", "0", "2", "0">>),
     Temporal("Point", <<"P">>)} \cup SafeIntegers \cup UnsafeIntegers

NullKey == Obj([key |-> Null])

\* what the elements of an inner array are
Inner ==
    {NullKey, Obj([key |-> Integer(<<"7">>)]), Obj([key |-> Integer(AboveSafeDigits)]),
     Obj([values |-> Null]), Null, Integer(<<"7">>), Str(<<"a">>), Arr(<<NullKey>>)}

InnerFillers == {NullKey, Null}

\* the arrays with a first element and up to MaxElems - 1 equal further ones
ArraysOf(firsts, fillers) ==
    {Arr(<<>>)} \cup
    {Arr(<<f>> \o [i \in 1..n |-> g]) :
        f \in firsts, g \in fillers, n \in 0..(MaxElems - 1)}

InnerArrays == ArraysOf(Inner, InnerFillers)

\* what the elements of an outer array are
Mid ==
    {Obj([key |-> s, values |-> a]) : s \in {Null, Integer(<<"7">>)}, a \in InnerArrays}

MidFillers == {Obj([key |-> Integer(<<"7">>), values |-> Arr(<<NullKey>>)]), Null}

OuterArrays == ArraysOf(Mid \cup Inner, MidFillers)

Maps ==
    {Obj([big |-> Integer(AboveSafeDigits)]),
     Obj([key |-> Obj([big |-> Integer(<<"7">>)])]),
     Node([key |-> Null, big |-> Integer(AboveSafeDigits)]),
     Node([values |-> Arr(<<NullKey, Obj([key |-> Temporal("Time", <<"T">>)])>>)])}

KeyColumn ==
    {Null, Integer(<<"7">>), Arr(<<NullKey>>), Arr(<<Obj([values |-> Arr(<<NullKey>>)])>>)}

ValuesColumn == Scalars \cup Maps \cup OuterArrays

InputRecords ==
    {Rec(<<"key", "values">>, [key |-> x, values |-> y]) :
        x \in KeyColumn, y \in ValuesColumn}

RecordFillers ==
    {Rec(<<"values">>, [values |-> Arr(<<NullKey>>)]),
     Rec(<<"key">>, [key |-> Integer(AboveSafeDigits)])}

\* the sequences of up to MaxRecords records
Inputs ==
    {Arr(<<>>)} \cup
    {Arr(<<r>> \o [i \in 1..n |-> g]) :
        r \in InputRecords, g \in RecordFillers, n \in 0..(MaxRecords - 1)}

ArrayKeys == {"key", "values"}

CheckKeys == {"key", "values"}

Queries == {"q1", "q2"}

\* result.records of a successful run of each query
RecordsOf(query) ==
    IF query = "q1"
    THEN Arr(<< Rec(<<"n">>, [n |-> Integer(<<"7">>)]) >>)
    ELSE Arr(<< Rec(<<"p", "when">>,
                    [p |-> Node([name |-> Str(<<"a">>),
                                 big |-> Integer(<<"9", "0", "0", "7", "1", "9", "9", "2",
                                               "5", "4", "7", "4", "0", "9", "9", "2">>)]),
                     when |-> Temporal("Date", <<"2", "0", "2", "0">>)]),
                Rec(<<"p", "when">>, [p |-> Null, when |-> Null]) >>)

\* the statement lists multipleStatements is called with: q1, q2, q1, ...
StatementLists ==
    {[i \in 1..n |-> IF i % 2 = 1 THEN "q1" ELSE "q2"] : n \in 0..MaxStatements}

(* ------------------------------------------------------------------ *)
(* State                                                               *)
(* ------------------------------------------------------------------ *)
VARIABLES
    config,          \* let config
    driver,          \* let driver: NoDriver while undefined, else a handle
    multiDBSupport,  \* let multiDBSupport
    drivers,         \* per init call, the instances neo4j.driver() returned to it
    sessions,        \* every session driver.session() has returned, in order
    exitHooks,       \* the listeners registered with process.on('exit')
    exited,          \* the process has exited
    inits,           \* the calls of init: position, arguments, locals
    calls,           \* the calls of the transaction helpers
    faults,          \* failures the environment may still inject
    input,           \* the records and keys the exported functions are given
    heap,            \* the arrays, objects, Nodes and Records that exist
    data,            \* the caller's variable: the records, then what was returned
    log              \* the calls of the exported functions made so far

\* the state of a caller of the exported functions
valueVars == <<input, heap, data, log>>

vars ==
    <<config, driver, multiDBSupport, drivers, sessions, exitHooks, exited,
      inits, calls, faults, input, heap, data, log>>

InitIds == 1..MaxInits

CallIds == 1..MaxCalls

NoConfig ==
    [defined |-> FALSE, url |-> "", auth |-> [scheme |-> "none"],
     database |-> "", options |-> NoOptions]

NoInfo == [address |-> "", version |-> <<>>]

NoArgs ==
    [url |-> "", user |-> "", password |-> "", database |-> "", options |-> NoOptions]

IdleInit ==
    [pc |-> "idle", args |-> NoArgs, numberOfTrials |-> 0, value |-> NoInfo,
     reason |-> ""]

\* a driver instance is named by the init call that created it and its number
\* among the instances of that call
NoDriver == [by |-> 0, no |-> 0]

DriverOf(h) == drivers[h.by][h.no]

IdleCall ==
    [pc |-> "idle", kind |-> "none", statements |-> <<>>, session |-> 0,
     idx |-> 0, results |-> <<>>, pend |-> "none", value |-> Undefined,
     reason |-> "", failedAt |-> 0, ran |-> <<>>, begun |-> 0, commits |-> 0,
     rollbacks |-> 0, committed |-> FALSE]

\* no caller of the exported functions
NoValues ==
    /\ input = [records |-> Arr(<<>>), arrayKey |-> "values", checkKey |-> "key"]
    /\ heap = <<>>
    /\ data = Undefined
    /\ log = <<>>

Init ==
    /\ config = NoConfig
    /\ driver = NoDriver
    /\ multiDBSupport = FALSE
    /\ drivers = [i \in InitIds |-> <<>>]
    /\ sessions = <<>>
    /\ exitHooks = <<>>
    /\ exited = FALSE
    /\ inits = [i \in InitIds |-> IdleInit]
    /\ calls = [c \in CallIds |-> IdleCall]
    /\ faults = MaxFaults
    /\ NoValues

(* ------------------------------------------------------------------ *)
(* init and connect                                                    *)
(* ------------------------------------------------------------------ *)
\* neo4j.auth.basic(user, password)
BasicAuth(user, password) ==
    [scheme |-> "basic", principal |-> user, credentials |-> password]

\* Object.assign({ disableLosslessIntegers: true }, options)
AssignOptions(options) ==
    [k \in {"disableLosslessIntegers"} \cup DOMAIN options |->
        IF k \in DOMAIN options THEN options[k] ELSE TRUE]

MakeConfig(a) ==
    [defined |-> TRUE, url |-> a.url, auth |-> BasicAuth(a.user, a.password),
     database |-> a.database, options |-> AssignOptions(a.options)]

\* neo4j.driver(config.url, config.auth): the options are left out
NewDriverNoOptions(cfg) ==
    [url |-> cfg.url, auth |-> cfg.auth, options |-> NoOptions,
     verify |-> "pending", closeCalls |-> 0]

\* neo4j.driver(config.url, config.auth, config.options)
NewDriver(cfg) ==
    [url |-> cfg.url, auth |-> cfg.auth, options |-> cfg.options,
     verify |-> "pending", closeCalls |-> 0]

\* a connect that retries whatever the counter
RetryAlways(numberOfTrials) == TRUE

\* the retries connect allows itself after a failed attempt
RetryAllowed(numberOfTrials) == numberOfTrials > 0

\* init, after the serverInfo arrived: does the version enable multi-database
VersionAboveThree(m) == ToNumber(m.major) > MultiDBMajor

\* multiDBSupport = +matches[1] > 3: the flag follows the latest version
AssignMultiDB(m, flag) == VersionAboveThree(m)

\* if (+matches[1] > 3) { multiDBSupport = true }
DetectMultiDB(m, flag) == IF VersionAboveThree(m) THEN TRUE ELSE flag

\* init without process.on('exit', ...)
RegisterNoHook(hooks, i) == hooks

\* process.on('exit', ...)
RegisterExitHook(hooks, i) == Append(hooks, [by |-> i])

\* driver = driver || neo4j.driver(...): the handle stays on its first instance
NewHandleKeepFirst(i) ==
    IF driver = NoDriver THEN [by |-> i, no |-> Len(drivers[i]) + 1] ELSE driver

\* driver = neo4j.driver(...): the handle names the instance just created
NewHandle(i) == [by |-> i, no |-> Len(drivers[i]) + 1]

\* connect(n) up to its await: a new driver instance replaces the handle and
\* verifyConnectivity is called on it
connect(i, n, cfg, callState) ==
    /\ drivers' = [drivers EXCEPT ![i] = Append(@, NewDriver(cfg))]
    /\ driver' = NewHandle(i)
    /\ inits' = [inits EXCEPT ![i] =
                    [callState EXCEPT !.pc = "verify", !.numberOfTrials = n]]

\* init(url, user, password, database, options) up to its first await
InitCall(i, a) ==
    /\ ~exited
    /\ inits[i].pc = "idle"
    /\ i > 1 => inits[i - 1].pc # "idle"
    /\ config' = MakeConfig(a)
    /\ connect(i, InitialTrials, MakeConfig(a), [inits[i] EXCEPT !.args = a])
    /\ UNCHANGED <<valueVars, multiDBSupport, sessions, exitHooks, exited, calls, faults>>

\* verifyConnectivity resolves: connect returns the serverInfo through the
\* chain of retry promises and init runs to its end
VerifyResolve(i) ==
    /\ ~exited
    /\ inits[i].pc = "verify"
    /\ LET d == Len(drivers[i])
           serverInfo == ServerInfoOf(drivers[i][d].url)
           matches == VersionMatch(serverInfo.version)
       IN  /\ drivers' = [drivers EXCEPT ![i][d].verify = "ok"]
           /\ IF matches.matched
              THEN /\ multiDBSupport' = DetectMultiDB(matches, multiDBSupport)
                   /\ exitHooks' = RegisterExitHook(exitHooks, i)
                   /\ inits' = [inits EXCEPT ![i].pc = "resolved",
                                             ![i].value = serverInfo]
              ELSE \* matches is null: matches[1] throws a TypeError
                   /\ inits' = [inits EXCEPT ![i].pc = "rejected",
                                             ![i].reason = "TypeError"]
                   /\ UNCHANGED <<multiDBSupport, exitHooks>>
    /\ UNCHANGED <<valueVars, config, driver, sessions, exited, calls, faults>>

\* verifyConnectivity rejects: a retry timer is set, or connect gives up
VerifyReject(i) ==
    /\ ~exited
    /\ inits[i].pc = "verify"
    /\ faults > 0
    /\ faults' = faults - 1
    /\ drivers' = [drivers EXCEPT ![i][Len(drivers[i])].verify = "failed"]
    /\ inits' = [inits EXCEPT
                    ![i].pc = IF RetryAllowed(inits[i].numberOfTrials)
                              THEN "timer" ELSE "rejected",
                    ![i].reason = IF RetryAllowed(inits[i].numberOfTrials)
                                  THEN "" ELSE "connectivity error"]
    /\ UNCHANGED <<valueVars, config, driver, multiDBSupport, sessions, exitHooks, exited, calls>>

\* the 5 second timer fires: connect(numberOfTrials - 1)
TimerFire(i) ==
    /\ ~exited
    /\ inits[i].pc = "timer"
    /\ connect(i, inits[i].numberOfTrials - 1, config, inits[i])
    /\ UNCHANGED <<valueVars, config, multiDBSupport, sessions, exitHooks, exited, calls, faults>>

\* the process exits: every 'exit' listener calls driver.close()
Exit ==
    /\ ~exited
    /\ exited' = TRUE
    /\ drivers' = IF exitHooks = <<>> THEN drivers
                  ELSE [drivers EXCEPT ![driver.by][driver.no].closeCalls =
                                            @ + Len(exitHooks)]
    /\ UNCHANGED <<valueVars, config, driver, multiDBSupport, sessions, exitHooks, inits,
                   calls, faults>>

(* ------------------------------------------------------------------ *)
(* readTransaction, writeTransaction, multipleStatements               *)
(* ------------------------------------------------------------------ *)
\* the helpers without their guard
DriverMissingNever == FALSE

\* if (!driver)
DriverMissing == driver = NoDriver

\* database: multiDBSupport ? config.database : null
SessionDatabase ==
    IF multiDBSupport THEN [isNull |-> FALSE, name |-> config.database]
    ELSE [isNull |-> TRUE, name |-> ""]

\* the init call that resolved last, 0 when none has
LastResolvedInit == IF exitHooks = <<>> THEN 0 ELSE exitHooks[Len(exitHooks)].by

\* exactly one init call has been made so far, and it has resolved
SoleInitResolved ==
    /\ inits[1].pc = "resolved"
    /\ \A i \in InitIds \ {1} : inits[i].pc = "idle"

\* driver.session({ database, defaultAccessMode })
NewSession(c, mode) ==
    [driver |-> driver, database |-> SessionDatabase, mode |-> mode,
     owner |-> c, users |-> {}, closeCalls |-> 0]

\* return Promise.reject('Neo4j driver not initialized!')
RejectUninitialized(c, kind, stmts) ==
    [calls[c] EXCEPT !.pc = "rejected", !.kind = kind, !.statements = stmts,
                     !.reason = NotInitialized]

CanStart(c) ==
    /\ ~exited
    /\ calls[c].pc = "idle"
    /\ c > 1 => calls[c - 1].pc # "idle"

\* readTransaction / writeTransaction up to the await of the managed transaction
SingleCall(c, kind, mode, query) ==
    /\ CanStart(c)
    /\ IF DriverMissing
       THEN /\ calls' = [calls EXCEPT ![c] = RejectUninitialized(c, kind, <<query>>)]
            /\ UNCHANGED sessions
       ELSE /\ sessions' = Append(sessions,
                                  [NewSession(c, mode) EXCEPT !.users = {c}])
            /\ calls' = [calls EXCEPT ![c] =
                            [@ EXCEPT !.pc = "run", !.kind = kind,
                                      !.statements = <<query>>,
                                      !.session = Len(sessions) + 1,
                                      !.idx = 1, !.ran = <<1>>]]
    /\ UNCHANGED <<valueVars, config, driver, multiDBSupport, drivers, exitHooks, exited,
                   inits, faults>>

readTransaction(c, query) == SingleCall(c, "read", "READ", query)

writeTransaction(c, query) == SingleCall(c, "write", "WRITE", query)

\* finally { await session.close() }: close is called, the outcome is kept
\* until close settles
Finally(call, pend, value, reason) ==
    [call EXCEPT !.pc = "close", !.pend = pend, !.value = value, !.reason = reason]

CloseCalled(s) == [sessions EXCEPT ![s].closeCalls = @ + 1]

\* the managed transaction resolves: return extractRecords(result.records)
TxWorkResolve(c) ==
    /\ ~exited
    /\ calls[c].pc = "run"
    /\ calls[c].kind \in {"read", "write"}
    /\ calls' = [calls EXCEPT ![c] =
                    Finally(@, "resolve",
                            extractRecords(RecordsOf(calls[c].statements[1])), "")]
    /\ sessions' = CloseCalled(calls[c].session)
    /\ UNCHANGED <<valueVars, config, driver, multiDBSupport, drivers, exitHooks, exited,
                   inits, faults>>

\* the managed transaction rejects: catch (e) { return Promise.reject(e) }
TxWorkReject(c) ==
    /\ ~exited
    /\ calls[c].pc = "run"
    /\ calls[c].kind \in {"read", "write"}
    /\ faults > 0
    /\ faults' = faults - 1
    /\ calls' = [calls EXCEPT ![c] =
                    Finally([@ EXCEPT !.failedAt = 1], "reject", Undefined, "run error")]
    /\ sessions' = CloseCalled(calls[c].session)
    /\ UNCHANGED <<valueVars, config, driver, multiDBSupport, drivers, exitHooks, exited, inits>>

\* a loop that stops one statement early: i < statements.length - 1
NextStatementButLast(call, idx) ==
    IF idx < Len(call.statements)
    THEN [call EXCEPT !.pc = "run", !.idx = idx, !.ran = Append(@, idx)]
    ELSE [call EXCEPT !.pc = "commit", !.commits = @ + 1]

\* if (!statements.length) throw ...: an empty list goes to the catch block
NextStatementEmptyThrows(call, idx) ==
    IF idx <= Len(call.statements)
    THEN [call EXCEPT !.pc = "run", !.idx = idx, !.ran = Append(@, idx)]
    ELSE IF call.statements = <<>>
    THEN [call EXCEPT !.pc = "rollback", !.rollbacks = @ + 1, !.reason = "empty list"]
    ELSE [call EXCEPT !.pc = "commit", !.commits = @ + 1]

\* the loop of multipleStatements from statement number idx on: the next
\* txc.run, or txc.commit after the last statement
NextStatement(call, idx) ==
    IF idx <= Len(call.statements)
    THEN [call EXCEPT !.pc = "run", !.idx = idx, !.ran = Append(@, idx)]
    ELSE [call EXCEPT !.pc = "commit", !.commits = @ + 1]

\* multipleStatements up to its first await; beginTransaction returned
multipleStatements(c, stmts) ==
    /\ CanStart(c)
    /\ IF DriverMissing
       THEN /\ calls' = [calls EXCEPT ![c] = RejectUninitialized(c, "multi", stmts)]
            /\ UNCHANGED sessions
       ELSE /\ sessions' = Append(sessions,
                                  [NewSession(c, "WRITE") EXCEPT !.users = {c}])
            /\ calls' = [calls EXCEPT ![c] =
                            NextStatement(
                                [@ EXCEPT !.kind = "multi", !.statements = stmts,
                                          !.session = Len(sessions) + 1,
                                          !.begun = 1], 1)]
    /\ UNCHANGED <<valueVars, config, driver, multiDBSupport, drivers, exitHooks, exited,
                   inits, faults>>

\* multipleStatements when session.beginTransaction() throws: the call is
\* outside the try statement, so the exception leaves the function at once
BeginThrows(c, stmts) ==
    /\ CanStart(c)
    /\ ~DriverMissing
    /\ faults > 0
    /\ faults' = faults - 1
    /\ sessions' = Append(sessions, NewSession(c, "WRITE"))
    /\ calls' = [calls EXCEPT ![c] =
                    [@ EXCEPT !.pc = "rejected", !.kind = "multi",
                              !.statements = stmts,
                              !.session = Len(sessions) + 1,
                              !.reason = "begin error"]]
    /\ UNCHANGED <<valueVars, config, driver, multiDBSupport, drivers, exitHooks, exited, inits>>

\* results = [extractRecords(result.records)]: only the last result is kept
PushResultLast(results, records) == <<extractRecords(records)>>

\* results.push(extractRecords(result.records))
PushResult(results, records) == Append(results, extractRecords(records))

\* catch (e) { return Promise.reject(e) } as in readTransaction: no rollback
CatchNoRollback(call, e) == [call EXCEPT !.pc = "rollback", !.reason = e]

\* catch (e) { await txc.rollback(); ... }: rollback is called, e is kept
Catch(call, e) ==
    [call EXCEPT !.pc = "rollback", !.rollbacks = @ + 1, !.reason = e]

\* txc.run resolves: push the records, go on with the loop
RunResolve(c) ==
    /\ ~exited
    /\ calls[c].pc = "run"
    /\ calls[c].kind = "multi"
    /\ calls' = [calls EXCEPT ![c] =
                    NextStatement(
                        [@ EXCEPT !.results =
                            PushResult(@, RecordsOf(calls[c].statements[calls[c].idx]))],
                        calls[c].idx + 1)]
    /\ UNCHANGED <<valueVars, config, driver, multiDBSupport, drivers, sessions, exitHooks,
                   exited, inits, faults>>

\* txc.run rejects
RunReject(c) ==
    /\ ~exited
    /\ calls[c].pc = "run"
    /\ calls[c].kind = "multi"
    /\ faults > 0
    /\ faults' = faults - 1
    /\ calls' = [calls EXCEPT ![c] =
                    Catch([@ EXCEPT !.failedAt = calls[c].idx], "run error")]
    /\ UNCHANGED <<valueVars, config, driver, multiDBSupport, drivers, sessions, exitHooks,
                   exited, inits>>

\* txc.commit resolves: return results
CommitResolve(c) ==
    /\ ~exited
    /\ calls[c].pc = "commit"
    /\ calls' = [calls EXCEPT ![c] =
                    Finally([@ EXCEPT !.committed = TRUE], "resolve",
                            Arr(calls[c].results), "")]
    /\ sessions' = CloseCalled(calls[c].session)
    /\ UNCHANGED <<valueVars, config, driver, multiDBSupport, drivers, exitHooks, exited,
                   inits, faults>>

\* txc.commit rejects
CommitReject(c) ==
    /\ ~exited
    /\ calls[c].pc = "commit"
    /\ faults > 0
    /\ faults' = faults - 1
    /\ calls' = [calls EXCEPT ![c] = Catch(@, "commit error")]
    /\ UNCHANGED <<valueVars, config, driver, multiDBSupport, drivers, sessions, exitHooks,
                   exited, inits>>

\* txc.rollback resolves: return Promise.reject(e)
RollbackResolve(c) ==
    /\ ~exited
    /\ calls[c].pc = "rollback"
    /\ calls' = [calls EXCEPT ![c] = Finally(@, "reject", Undefined, calls[c].reason)]
    /\ sessions' = CloseCalled(calls[c].session)
    /\ UNCHANGED <<valueVars, config, driver, multiDBSupport, drivers, exitHooks, exited,
                   inits, faults>>

\* txc.rollback rejects: its error leaves the catch block in place of e
RollbackReject(c) ==
    /\ ~exited
    /\ calls[c].pc = "rollback"
    /\ faults > 0
    /\ faults' = faults - 1
    /\ calls' = [calls EXCEPT ![c] = Finally(@, "reject", Undefined, "rollback error")]
    /\ sessions' = CloseCalled(calls[c].session)
    /\ UNCHANGED <<valueVars, config, driver, multiDBSupport, drivers, exitHooks, exited, inits>>

\* session.close() resolves: the call settles with the outcome kept
CloseResolve(c) ==
    /\ ~exited
    /\ calls[c].pc = "close"
    /\ calls' = [calls EXCEPT ![c].pc =
                    IF calls[c].pend = "resolve" THEN "resolved" ELSE "rejected"]
    /\ UNCHANGED <<valueVars, config, driver, multiDBSupport, drivers, sessions, exitHooks,
                   exited, inits, faults>>

\* session.close() rejects: its error leaves the finally block in place of
\* the outcome kept
CloseReject(c) ==
    /\ ~exited
    /\ calls[c].pc = "close"
    /\ faults > 0
    /\ faults' = faults - 1
    /\ calls' = [calls EXCEPT ![c] =
                    [@ EXCEPT !.pc = "rejected", !.value = Undefined,
                              !.reason = "close error"]]
    /\ UNCHANGED <<valueVars, config, driver, multiDBSupport, drivers, sessions, exitHooks,
                   exited, inits>>

(* ------------------------------------------------------------------ *)
(* The specifications                                                  *)
(*   Spec: one call of init with its retries and two concurrent helper *)
(*   calls, every call into the driver failing or not.                 *)
(*   CallsSpec: one call of init with its retries and the starts of    *)
(*   MaxCalls helper calls, at any point of the bootstrap.             *)
(*   BootSpec: MaxInits overlapping calls of init with all their       *)
(*   retries, and the process exit.                                    *)
(*   BootCallSpec: BootSpec with a helper call whose statements        *)
(*   succeed.                                                          *)
(*   FlagSpec: overlapping calls of init with few failed attempts and  *)
(*   one readTransaction or multipleStatements call, without the exit. *)
(*   LiveSpec: two overlapping calls of init of which every attempt    *)
(*   may fail, with every attempt settling and every timer firing.     *)
(* ------------------------------------------------------------------ *)
TwoCalls == {1, 2}

Next ==
    \/ \E a \in InitArgs : InitCall(1, a)
    \/ VerifyResolve(1)
    \/ VerifyReject(1)
    \/ TimerFire(1)
    \/ \E c \in TwoCalls, q \in Queries : readTransaction(c, q)
    \/ \E c \in TwoCalls, q \in Queries : writeTransaction(c, q)
    \/ \E c \in TwoCalls, stmts \in StatementLists : multipleStatements(c, stmts)
    \/ \E c \in TwoCalls, stmts \in StatementLists : BeginThrows(c, stmts)
    \/ \E c \in TwoCalls : TxWorkResolve(c)
    \/ \E c \in TwoCalls : TxWorkReject(c)
    \/ \E c \in TwoCalls : RunResolve(c)
    \/ \E c \in TwoCalls : RunReject(c)
    \/ \E c \in TwoCalls : CommitResolve(c)
    \/ \E c \in TwoCalls : CommitReject(c)
    \/ \E c \in TwoCalls : RollbackResolve(c)
    \/ \E c \in TwoCalls : RollbackReject(c)
    \/ \E c \in TwoCalls : CloseResolve(c)
    \/ \E c \in TwoCalls : CloseReject(c)

Spec == Init /\ [][Next]_vars

CallsNext ==
    \/ \E a \in InitArgs : InitCall(1, a)
    \/ VerifyResolve(1)
    \/ VerifyReject(1)
    \/ TimerFire(1)
    \/ \E c \in CallIds, q \in Queries : readTransaction(c, q)
    \/ \E c \in CallIds, q \in Queries : writeTransaction(c, q)
    \/ \E c \in CallIds, stmts \in StatementLists : multipleStatements(c, stmts)

CallsSpec == Init /\ [][CallsNext]_vars

BootInit ==
    /\ config = NoConfig
    /\ driver = NoDriver
    /\ multiDBSupport = FALSE
    /\ drivers = [i \in InitIds |-> <<>>]
    /\ sessions = <<>>
    /\ exitHooks = <<>>
    /\ exited = FALSE
    /\ inits = [i \in InitIds |-> IdleInit]
    /\ calls = [c \in CallIds |-> IdleCall]
    /\ faults = MaxVerifyFaults
    /\ NoValues

BootNext ==
    \/ \E i \in InitIds, a \in InitArgs : InitCall(i, a)
    \/ \E i \in InitIds : VerifyResolve(i)
    \/ \E i \in InitIds : VerifyReject(i)
    \/ \E i \in InitIds : TimerFire(i)
    \/ Exit

BootSpec == BootInit /\ [][BootNext]_vars

BootCallNext ==
    \/ \E i \in InitIds, a \in InitArgs : InitCall(i, a)
    \/ \E i \in InitIds : VerifyResolve(i)
    \/ \E i \in InitIds : VerifyReject(i)
    \/ \E i \in InitIds : TimerFire(i)
    \/ readTransaction(1, "q1")
    \/ writeTransaction(1, "q2")
    \/ multipleStatements(1, <<"q1">>)
    \/ TxWorkResolve(1)
    \/ RunResolve(1)
    \/ CommitResolve(1)
    \/ CloseResolve(1)
    \/ Exit

BootCallSpec == BootInit /\ [][BootCallNext]_vars

\* overlapping init calls with few failed attempts, and one helper call
FlagInit ==
    /\ config = NoConfig
    /\ driver = NoDriver
    /\ multiDBSupport = FALSE
    /\ drivers = [i \in InitIds |-> <<>>]
    /\ sessions = <<>>
    /\ exitHooks = <<>>
    /\ exited = FALSE
    /\ inits = [i \in InitIds |-> IdleInit]
    /\ calls = [c \in CallIds |-> IdleCall]
    /\ faults = MaxFaults
    /\ NoValues

FlagNext ==
    \/ \E i \in InitIds, a \in InitArgs : InitCall(i, a)
    \/ \E i \in InitIds : VerifyResolve(i)
    \/ \E i \in InitIds : VerifyReject(i)
    \/ \E i \in InitIds : TimerFire(i)
    \/ readTransaction(1, "q1")
    \/ multipleStatements(1, <<"q1">>)
    \/ TxWorkResolve(1)
    \/ RunResolve(1)
    \/ CommitResolve(1)
    \/ CloseResolve(1)

FlagSpec == FlagInit /\ [][FlagNext]_vars

\* every verification attempt of every init call may fail
AllAttempts == MaxInits * (InitialTrials + 1)

\* overlapping init calls of which every attempt may fail, in a process that
\* does not exit
LiveInit ==
    /\ config = NoConfig
    /\ driver = NoDriver
    /\ multiDBSupport = FALSE
    /\ drivers = [i \in InitIds |-> <<>>]
    /\ sessions = <<>>
    /\ exitHooks = <<>>
    /\ exited = FALSE
    /\ inits = [i \in InitIds |-> IdleInit]
    /\ calls = [c \in CallIds |-> IdleCall]
    /\ faults = AllAttempts
    /\ NoValues

\* the two init calls that overlap
TwoInits == {1, 2}

LiveNext ==
    \/ \E i \in TwoInits, a \in InitArgs : InitCall(i, a)
    \/ \E i \in TwoInits : VerifyResolve(i)
    \/ \E i \in TwoInits : VerifyReject(i)
    \/ \E i \in TwoInits : TimerFire(i)

\* every verification attempt settles and every retry timer that was set fires
LiveFairness ==
    \A i \in TwoInits :
        /\ WF_vars(VerifyResolve(i) \/ VerifyReject(i))
        /\ WF_vars(TimerFire(i))

LiveSpec == LiveInit /\ [][LiveNext]_vars /\ LiveFairness

(* ------------------------------------------------------------------ *)
(* The exported pure functions, called by a caller that holds a record *)
(* sequence: extractRecords first, then convertValues and              *)
(* removeEmptyArrays on what was returned.                             *)
(* ------------------------------------------------------------------ *)
processVars ==
    <<config, driver, multiDBSupport, drivers, sessions, exitHooks, exited,
      inits, calls, faults>>

\* one call: the function, the argument, the heap before and after, the value
\* returned and whether the call threw
Entry(fn, arg, before, r, thrown) ==
    [fn |-> fn, arg |-> arg, before |-> before, ret |-> r.ret, thrown |-> thrown,
     after |-> r.h]

Made(fn) == Cardinality({i \in 1..Len(log) : log[i].fn = fn})

NoneThrew == \A i \in 1..Len(log) : ~log[i].thrown

ValuesInit ==
    /\ config = NoConfig
    /\ driver = NoDriver
    /\ multiDBSupport = FALSE
    /\ drivers = [i \in InitIds |-> <<>>]
    /\ sessions = <<>>
    /\ exitHooks = <<>>
    /\ exited = FALSE
    /\ inits = [i \in InitIds |-> IdleInit]
    /\ calls = [c \in CallIds |-> IdleCall]
    /\ faults = MaxFaults
    /\ \E records \in Inputs, arrayKey \in ArrayKeys, checkKey \in CheckKeys :
          /\ input = [records |-> records, arrayKey |-> arrayKey, checkKey |-> checkKey]
          /\ heap = Store(<<>>, records).h
          /\ data = Store(<<>>, records).ret
    /\ log = <<>>

\* data = extractRecords(data)
CallExtractRecords ==
    /\ log = <<>>
    /\ LET r == extractRecordsAt(heap, data)
       IN  /\ heap' = r.h
           /\ data' = r.ret
           /\ log' = Append(log, Entry("extractRecords", data, heap, r, FALSE))
    /\ UNCHANGED <<processVars, input>>

\* data = convertValues(data), on records already extracted
CallConvertValues ==
    /\ Len(log) = 1
    /\ LET r == convertValuesAt(heap, data)
       IN  /\ heap' = r.h
           /\ data' = r.ret
           /\ log' = Append(log, Entry("convertValues", data, heap, r, FALSE))
    /\ UNCHANGED <<processVars, input>>

\* data = removeEmptyArrays(data, arrayKey, checkKey), on records already
\* extracted
CallRemoveEmptyArrays ==
    /\ log # <<>>
    /\ NoneThrew
    /\ Made("removeEmptyArrays") < MaxPrunes
    /\ LET r == removeEmptyArrays(heap, data, input.arrayKey, input.checkKey)
       IN  /\ heap' = r.h
           /\ data' = IF r.thrown THEN data ELSE r.ret
           /\ log' = Append(log, Entry("removeEmptyArrays", data, heap, r, r.thrown))
    /\ UNCHANGED <<processVars, input>>

ValuesNext ==
    \/ CallExtractRecords
    \/ CallConvertValues
    \/ CallRemoveEmptyArrays

ValuesSpec == ValuesInit /\ [][ValuesNext]_vars

(* ------------------------------------------------------------------ *)
(* Properties                                                          *)
(* ------------------------------------------------------------------ *)
Settled(c) == calls[c].pc \in {"resolved", "rejected"}

FirstN(n) == [k \in 1..n |-> k]

\* the verification attempts init call i has made, and those that failed
Attempts(i) == Len(drivers[i])

Failures(i) ==
    Cardinality({k \in 1..Len(drivers[i]) : drivers[i][k].verify = "failed"})

\* the major version init reads from a serverInfo
MajorOf(serverInfo) == ToNumber(VersionMatch(serverInfo.version).major)

\* C1: in multipleStatements, once statement k has failed, commit has not
\* been and is never called on the transaction, rollback has been called, and
\* the statements run are exactly 1..k (none after k).
C1_MultiAtomic ==
    \A c \in CallIds :
        (calls[c].kind = "multi" /\ calls[c].failedAt # 0) =>
            /\ calls[c].commits = 0
            /\ calls[c].rollbacks = 1
            /\ calls[c].ran = FirstN(calls[c].failedAt)

\* C1 witness: statement 2 of 3 failed and the call has rejected
C1_Witness ==
    \E c \in CallIds :
        /\ calls[c].kind = "multi"
        /\ Len(calls[c].statements) = 3
        /\ calls[c].failedAt = 2
        /\ calls[c].pc = "rejected"

\* C2: a helper call that acquired a session has called session.close on it
\* by the time its promise settles, on every exit path.
C2_SessionAlwaysClosed ==
    \A c \in CallIds :
        (Settled(c) /\ calls[c].session # 0) =>
            sessions[calls[c].session].closeCalls >= 1

\* C3: an init call makes at most 5 verification attempts, and resolves only
\* when fewer than 5 attempts failed before the one that succeeded.
C3_AtMostFiveAttempts ==
    \A i \in InitIds :
        /\ Attempts(i) <= InitialTrials
        /\ inits[i].pc = "resolved" => Failures(i) < InitialTrials

\* C4: while init has never been called, every helper call made has rejected
\* with 'Neo4j driver not initialized!' and has acquired no session, begun no
\* transaction and run no statement.
C4_UninitializedRejects ==
    (\A i \in InitIds : inits[i].pc = "idle") =>
        /\ sessions = <<>>
        /\ \A c \in CallIds :
              calls[c].pc # "idle" =>
                  /\ calls[c].pc = "rejected"
                  /\ calls[c].reason = NotInitialized
                  /\ calls[c].session = 0
                  /\ calls[c].begun = 0
                  /\ calls[c].ran = <<>>

\* C4 witness: init never called, a multipleStatements call and a
\* readTransaction call have both been made
C4_Witness ==
    /\ \A i \in InitIds : inits[i].pc = "idle"
    /\ \E c, d \in CallIds :
          /\ calls[c].kind = "multi" /\ calls[c].statements # <<>>
          /\ calls[d].kind = "read"
          /\ calls[c].pc = "rejected" /\ calls[d].pc = "rejected"

\* C5: a helper call in which a statement failed rejects with that statement's
\* error, whatever rollback and session.close do afterwards.
C5_StatementErrorDelivered ==
    \A c \in CallIds :
        (Settled(c) /\ calls[c].failedAt # 0) =>
            /\ calls[c].pc = "rejected"
            /\ calls[c].reason = "run error"

\* the handle is the instance the init call that resolved last has verified
HandleOfLastResolvedInit ==
    /\ LastResolvedInit # 0
    /\ driver = [by |-> LastResolvedInit, no |-> Len(drivers[LastResolvedInit])]

\* C6: a session acquired from the driver of the init call that resolved last
\* is scoped to config.database if that init's server has a major version
\* above 3, and is opened with database null otherwise.
C6_DatabaseFollowsLatestInit ==
    [][\A c \in CallIds :
          (calls[c].session = 0 /\ calls'[c].session # 0 /\ HandleOfLastResolvedInit) =>
              sessions'[calls'[c].session].database =
                  IF MajorOf(inits[LastResolvedInit].value) > 3
                  THEN [isNull |-> FALSE, name |-> config.database]
                  ELSE [isNull |-> TRUE, name |-> ""]]_vars

\* C7: multipleStatements resolves only after every statement and the commit
\* succeeded, with one entry per statement, entry i being the extracted
\* records of statement i; once any step has failed it does not resolve, and
\* a rejected call delivers no results.
C7_AllOrNothing ==
    \A c \in CallIds :
        calls[c].kind = "multi" =>
            /\ calls[c].pc = "resolved" =>
                  /\ calls[c].committed
                  /\ calls[c].failedAt = 0
                  /\ calls[c].rollbacks = 0
                  /\ calls[c].ran = FirstN(Len(calls[c].statements))
                  /\ calls[c].value =
                        Arr([k \in 1..Len(calls[c].statements) |->
                                extractRecords(RecordsOf(calls[c].statements[k]))])
            /\ calls[c].reason # "" => calls[c].pc # "resolved"
            /\ calls[c].pc = "rejected" => calls[c].value = Undefined

\* C7 witness: a call with three statements has resolved
C7_Witness ==
    \E c \in CallIds :
        /\ calls[c].kind = "multi"
        /\ Len(calls[c].statements) = 3
        /\ calls[c].pc = "resolved"

\* C8: every call's session is its own, only that call runs statements on it,
\* no two calls share a session, and a settled call has called close on its
\* session exactly once (so no session stays open once all calls settled).
C8_OwnSessionClosedOnce ==
    /\ \A c \in CallIds :
          calls[c].session # 0 =>
              /\ sessions[calls[c].session].owner = c
              /\ sessions[calls[c].session].users \subseteq {c}
              /\ Settled(c) => sessions[calls[c].session].closeCalls = 1
    /\ \A c, d \in CallIds :
          (c # d /\ calls[c].session # 0) => calls[c].session # calls[d].session
    /\ \A s \in 1..Len(sessions) : calls[sessions[s].owner].session = s

\* C9: once the only init call made has resolved, every helper call that
\* starts passes the guard and takes its session from the driver instance
\* whose verification that init call saw succeed.
C9_SessionFromVerifiedDriver ==
    [][\A c \in CallIds :
          (calls[c].pc = "idle" /\ calls'[c].pc # "idle" /\ SoleInitResolved) =>
              /\ calls'[c].reason # NotInitialized
              /\ calls'[c].session # 0
              /\ sessions'[calls'[c].session].driver =
                    [by |-> 1, no |-> Len(drivers[1])]
              /\ drivers[1][Len(drivers[1])].verify = "ok"]_vars

\* C9 witness: init resolved at its third attempt and every helper call holds
\* a session of the third driver instance
C9_Witness ==
    /\ SoleInitResolved
    /\ Len(drivers[1]) = 3
    /\ \A c \in CallIds :
          /\ calls[c].session # 0
          /\ sessions[calls[c].session].driver = [by |-> 1, no |-> 3]

\* C10: when the process has exited after an init call resolved, close has
\* been called on the driver instance that is the handle at the exit.
C10_ExitClosesHandle ==
    (exited /\ \E i \in InitIds : inits[i].pc = "resolved") =>
        /\ driver # NoDriver
        /\ DriverOf(driver).closeCalls >= 1

\* C10 witness: the process exited after an init call resolved, while the
\* handle was an instance another init call was still verifying
C10_Witness ==
    /\ exited
    /\ \E i \in InitIds : inits[i].pc = "resolved"
    /\ DriverOf(driver).verify = "pending"
    /\ DriverOf(driver).closeCalls >= 1

\* the calls of fn that returned
Returned(fn) == {i \in 1..Len(log) : log[i].fn = fn /\ ~log[i].thrown}

\* the elements of the array a call was given, as they were before the call
ArgElems(e) == {e.before[e.arg.v].v[i] : i \in 1..Len(e.before[e.arg.v].v)}

\* record[arrayKey] is an array with a first element
NamedArray(h, record, arrayKey) ==
    LET a == Get(h, record, arrayKey) IN IsArray(h, a) /\ h[a.v].v # <<>>

\* record[arrayKey] is an array whose first element is a mapping with null at
\* checkKey
NullPlaceholder(h, record, arrayKey, checkKey) ==
    /\ NamedArray(h, record, arrayKey)
    /\ LET f == FirstOf(h, Get(h, record, arrayKey))
       IN  /\ IsRef(f)
           /\ h[f.v].t = "object"
           /\ checkKey \in DOMAIN h[f.v].v
           /\ h[f.v].v[checkKey].t = "null"

\* record[arrayKey] is the empty array
IsEmptyArray(h, record, arrayKey) ==
    LET a == Get(h, record, arrayKey) IN IsArray(h, a) /\ h[a.v].v = <<>>

\* C11: when removeEmptyArrays(data, arrayKey, checkKey) has returned, every
\* top-level record whose arrayKey field was an array with a first element
\* holding null at checkKey has the empty array there, and every top-level
\* record whose arrayKey field was an array with a first element not holding
\* null at checkKey still has the same array there, of the same length and
\* with the same elements.
C11_PrunesTopLevel ==
    \A i \in Returned("removeEmptyArrays") :
        \A record \in ArgElems(log[i]) :
            LET e == log[i]
                k == input.arrayKey
            IN  /\ NullPlaceholder(e.before, record, k, input.checkKey) =>
                      IsEmptyArray(e.after, record, k)
                /\ (/\ NamedArray(e.before, record, k)
                    /\ ~NullPlaceholder(e.before, record, k, input.checkKey)) =>
                      /\ Get(e.after, record, k) = Get(e.before, record, k)
                      /\ e.after[Get(e.before, record, k).v] =
                            e.before[Get(e.before, record, k).v]

\* C11 witness: a call has returned that emptied the named array of a
\* top-level record
C11_Witness ==
    \E i \in Returned("removeEmptyArrays") :
        \E record \in ArgElems(log[i]) :
            /\ NullPlaceholder(log[i].before, record, input.arrayKey, input.checkKey)
            /\ IsEmptyArray(log[i].after, record, input.arrayKey)

\* the data a call left: what it returned, as a tree
Result(e) == Load(e.after, e.ret)

\* C12: a second removeEmptyArrays on what the first returned, with the same
\* arrayKey and checkKey, returns data equal to what the first returned.
C12_PruneIdempotent ==
    \A i, j \in Returned("removeEmptyArrays") :
        (i < j /\ log[j].arg = log[i].ret) => Result(log[j]) = Result(log[i])

\* C12 witness: removeEmptyArrays has been applied twice, and the first
\* application emptied an array
C12_Witness ==
    \E i, j \in Returned("removeEmptyArrays") :
        /\ i < j
        /\ log[j].arg = log[i].ret
        /\ Result(log[i]) # Load(log[i].before, log[i].arg)

\* C13: after a call of extractRecords or removeEmptyArrays, every array,
\* object, Node and Record that was reachable from the argument is as it was
\* before the call.
C13_ArgumentUnchanged ==
    \A i \in 1..Len(log) :
        log[i].fn \in {"extractRecords", "removeEmptyArrays"} =>
            \A a \in Reach(log[i].before, log[i].arg) :
                log[i].after[a] = log[i].before[a]

RECURSIVE IntegersConverted(_, _)
\* out holds, wherever the value in holds an Integer, the number with the same
\* digits when the Integer is in the safe range and the string of its digits
\* when it is not
IntegersConverted(in, out) ==
    IF in.t = "Integer"
    THEN IF in \in SafeIntegers THEN out = Num(in.v)
         ELSE in \in UnsafeIntegers /\ out = Str(in.v)
    ELSE IF in.t = "array"
    THEN /\ out.t = "array"
         /\ Len(out.v) = Len(in.v)
         /\ \A i \in 1..Len(in.v) : IntegersConverted(in.v[i], out.v[i])
    ELSE IF in.t \in {"object", "Node"}
    THEN LET fields == IF in.t = "Node" THEN in.v.properties ELSE in.v
         IN  /\ out.t = "object"
             /\ DOMAIN out.v = DOMAIN fields
             /\ \A k \in DOMAIN fields : IntegersConverted(fields[k], out.v[k])
    ELSE TRUE

\* C14: in what extractRecords returns, every Integer of a record value, at
\* any depth of arrays, maps and Nodes, has become the number with its digits
\* if it is within the safe range and the string of its digits otherwise.
C14_IntegersNormalized ==
    \A i \in Returned("extractRecords") :
        LET in == Load(log[i].before, log[i].arg)
            out == Result(log[i])
        IN  /\ Len(out.v) = Len(in.v)
            /\ \A n \in 1..Len(in.v) :
                  \A k \in DOMAIN in.v[n].v.fields :
                      /\ k \in DOMAIN out.v[n].v
                      /\ IntegersConverted(in.v[n].v.fields[k], out.v[n].v[k])

\* C14 witness: a record with the Integer 7 in one column and the Integer 2^53
\* inside a map inside an array in the other has been normalized
C14_Witness ==
    /\ input.records =
          Arr(<<Rec(<<"key", "values">>,
                    [key |-> Integer(<<"7">>),
                     values |-> Arr(<<Obj([key |-> Integer(AboveSafeDigits)])>>)])>>)
    /\ log # <<>>
    /\ Result(log[1]) =
          Arr(<<Obj([key |-> Num(<<"7">>),
                     values |-> Arr(<<Obj([key |-> Str(AboveSafeDigits)])>>)])>>)

\* C15: convertValues applied to plain data (null, booleans, numbers, strings
\* and the arrays and maps of these that extractRecords returns) returns data
\* equal to what it was given.
C15_PlainDataFixed ==
    \A i \in Returned("convertValues") :
        Result(log[i]) = Load(log[i].before, log[i].arg)

\* C15 witness: convertValues has been applied to a sequence of one mapping
\* holding a number and an array of a mapping holding a string
C15_Witness ==
    \E i \in Returned("convertValues") :
        /\ Load(log[i].before, log[i].arg) =
              Arr(<<Obj([key |-> Num(<<"7">>),
                         values |-> Arr(<<Obj([key |-> Str(AboveSafeDigits)])>>)])>>)
        /\ Result(log[i]) = Load(log[i].before, log[i].arg)

\* record.keys as a set
ColumnNames(record) == {record.v.keys[i] : i \in 1..Len(record.v.keys)}

\* C16: extractRecords returns a sequence as long as the one it was given, and
\* its n-th element is a mapping whose keys are the column names of the n-th
\* record and whose value at each key is convertValues of the record's value
\* for that column.
C16_OneMappingPerRecord ==
    \A i \in Returned("extractRecords") :
        LET in == Load(log[i].before, log[i].arg)
            out == Result(log[i])
        IN  /\ out.t = "array"
            /\ Len(out.v) = Len(in.v)
            /\ \A n \in 1..Len(in.v) :
                  /\ out.v[n].t = "object"
                  /\ DOMAIN out.v[n].v = ColumnNames(in.v[n])
                  /\ \A k \in ColumnNames(in.v[n]) :
                        out.v[n].v[k] = convertValues(in.v[n].v.fields[k])

\* C16 witness: two records with different columns have been extracted
C16_Witness ==
    \E i \in Returned("extractRecords") :
        LET in == Load(log[i].before, log[i].arg)
        IN  /\ Len(in.v) > 1
            /\ ColumnNames(in.v[1]) # ColumnNames(in.v[2])
            /\ Len(Result(log[i]).v) = Len(in.v)

\* C17: in a multipleStatements call whose transaction has begun, the
\* statements issued so far are 1..k in list order, all but possibly the last
\* of them have resolved, and commit has been called (once) exactly when every
\* statement of the list has resolved.
C17_SequentialThenCommit ==
    \A c \in CallIds :
        (calls[c].kind = "multi" /\ calls[c].begun = 1) =>
            /\ calls[c].ran = FirstN(Len(calls[c].ran))
            /\ Len(calls[c].ran) <= Len(calls[c].statements)
            /\ Len(calls[c].results) \in {Len(calls[c].ran) - 1, Len(calls[c].ran)}
            /\ calls[c].commits <= 1
            /\ calls[c].commits = 1 <=>
                  Len(calls[c].results) = Len(calls[c].statements)

\* C17 witness: the third of three statements is running, two have resolved
\* and commit has not been called
C17_Witness ==
    \E c \in CallIds :
        /\ calls[c].kind = "multi"
        /\ Len(calls[c].statements) = 3
        /\ calls[c].pc = "run"
        /\ calls[c].ran = <<1, 2, 3>>
        /\ Len(calls[c].results) = 2
        /\ calls[c].commits = 0

\* the attempts of init call i whose verification succeeded
Succeeded(i) == {k \in 1..Len(drivers[i]) : drivers[i][k].verify = "ok"}

\* C18: once a verification attempt of an init call has succeeded, it is the
\* call's last attempt and last driver instance, no timer is pending, and the
\* call has resolved with the server info of the server that attempt reached.
C18_StopsAtFirstSuccess ==
    \A i \in InitIds :
        \A k \in Succeeded(i) :
            /\ k = Len(drivers[i])
            /\ inits[i].pc = "resolved"
            /\ inits[i].value = ServerInfoOf(drivers[i][k].url)

\* C19: an init call that has started has created exactly one driver
\* instance, however many of its verification attempts have failed.
C19_OneInstancePerInit ==
    \A i \in InitIds : inits[i].pc # "idle" => Len(drivers[i]) = 1

\* C20: when removeEmptyArrays has returned, every top-level record whose
\* arrayKey field was a one-element array with null at checkKey in its element
\* has the empty array there, and every top-level record whose arrayKey field
\* was an array of two or more elements still has that array with those
\* elements.
C20_OnlySingletonsEmptied ==
    \A i \in Returned("removeEmptyArrays") :
        \A record \in ArgElems(log[i]) :
            LET e == log[i]
                k == input.arrayKey
                a == Get(e.before, record, k)
            IN  IsArray(e.before, a) =>
                    /\ (/\ Len(e.before[a.v].v) = 1
                        /\ NullPlaceholder(e.before, record, k, input.checkKey)) =>
                          IsEmptyArray(e.after, record, k)
                    /\ Len(e.before[a.v].v) >= 2 =>
                          /\ Get(e.after, record, k) = a
                          /\ e.after[a.v] = e.before[a.v]

\* the elements of the arrays a mapping holds in its fields
ArrayFieldElems(h, m) ==
    UNION {{h[h[m.v].v[k].v].v[i] : i \in 1..Len(h[h[m.v].v[k].v].v)} :
              k \in {k \in DOMAIN h[m.v].v : IsArray(h, h[m.v].v[k])}}

IsMapping(h, x) == IsRef(x) /\ h[x.v].t = "object"

RECURSIVE MappingsFrom(_, _)
\* the mappings reached from the mapping m by stepping, any number of times,
\* from a mapping to an element of one of its array-valued fields
MappingsFrom(h, m) ==
    {m} \cup UNION {MappingsFrom(h, e) :
                       e \in {x \in ArrayFieldElems(h, m) : IsMapping(h, x)}}

\* C21: when removeEmptyArrays has returned, no mapping reached from a
\* top-level record of the result through elements of array-valued fields
\* (of any name) has at arrayKey an array whose first element holds null at
\* checkKey.
C21_NoPlaceholderLeft ==
    \A i \in Returned("removeEmptyArrays") :
        LET e == log[i]
        IN  \A record \in {x \in {e.after[e.ret.v].v[n] : n \in 1..Len(e.after[e.ret.v].v)} :
                              IsMapping(e.after, x)} :
                \A m \in MappingsFrom(e.after, record) :
                    ~NullPlaceholder(e.after, m, input.arrayKey, input.checkKey)

\* C21 witness: a call has returned that emptied the named array of a mapping
\* below a top-level record, reached through a field that is not arrayKey
C21_Witness ==
    \E i \in Returned("removeEmptyArrays") :
        \E record \in ArgElems(log[i]) :
            /\ ~IsArray(log[i].before, Get(log[i].before, record, input.arrayKey))
            /\ \E m \in MappingsFrom(log[i].before, record) \ {record} :
                  /\ NullPlaceholder(log[i].before, m, input.arrayKey, input.checkKey)
                  /\ IsEmptyArray(log[i].after, m, input.arrayKey)

\* the types of the temporal and spatial values of the driver
TextTags ==
    {"Date", "DateTime", "LocalTime", "LocalDateTime", "Time", "Duration", "Point"}

DriverTags == {"Integer", "Node", "Record"} \cup TextTags

RECURSIVE DriverFree(_)
\* no Integer, temporal, spatial or Node value at any depth of the value
DriverFree(value) ==
    /\ value.t \notin DriverTags
    /\ value.t = "array" => \A i \in 1..Len(value.v) : DriverFree(value.v[i])
    /\ value.t = "object" => \A k \in DOMAIN value.v : DriverFree(value.v[k])

RECURSIVE Normalized(_, _)
\* out is in with every value replaced according to its type
Normalized(in, out) ==
    IF in.t = "Integer"
    THEN out = IF in \in SafeIntegers THEN Num(in.v) ELSE Str(in.v)
    ELSE IF in.t \in TextTags THEN out = Str(in.v.text)
    ELSE IF in.t = "array"
    THEN /\ out.t = "array"
         /\ Len(out.v) = Len(in.v)
         /\ \A i \in 1..Len(in.v) : Normalized(in.v[i], out.v[i])
    ELSE IF in.t \in {"object", "Node"}
    THEN LET fields == IF in.t = "Node" THEN in.v.properties ELSE in.v
         IN  /\ out.t = "object"
             /\ DOMAIN out.v = DOMAIN fields
             /\ \A k \in DOMAIN fields : Normalized(fields[k], out.v[k])
    ELSE out = in

\* C22: what extractRecords returns is the input normalized by type at every
\* depth (temporal and spatial values to their text, a Node to its normalized
\* properties, arrays element by element, maps key by key), and holds no
\* Integer, temporal, spatial or Node value anywhere.
C22_TypeDirectedAtEveryDepth ==
    \A i \in Returned("extractRecords") :
        LET in == Load(log[i].before, log[i].arg)
            out == Result(log[i])
        IN  /\ DriverFree(out)
            /\ Len(out.v) = Len(in.v)
            /\ \A n \in 1..Len(in.v) :
                  /\ DOMAIN out.v[n].v = ColumnNames(in.v[n])
                  /\ \A k \in ColumnNames(in.v[n]) :
                        Normalized(in.v[n].v.fields[k], out.v[n].v[k])

\* C22 witness: a record holding a Node whose property is an array with a
\* temporal value inside a map has been normalized
C22_Witness ==
    \E i \in Returned("extractRecords") :
        \E n \in 1..Len(Result(log[i]).v) :
            /\ Load(log[i].before, log[i].arg).v[n].v.fields.values =
                  Node([values |-> Arr(<<NullKey, Obj([key |-> Temporal("Time", <<"T">>)])>>)])
            /\ Result(log[i]).v[n].v.values =
                  Obj([values |-> Arr(<<NullKey, Obj([key |-> Str(<<"T">>)])>>)])

\* C23: whenever a helper call acquires a session, the driver instance the
\* session comes from has had its connectivity verification succeed.
C23_SessionOnlyFromVerified ==
    [][\A c \in CallIds :
          (calls[c].session = 0 /\ calls'[c].session # 0) =>
              DriverOf(sessions'[calls'[c].session].driver).verify = "ok"]_vars

\* C24: when the first init call of the process has rejected and no other
\* init call was made, the configuration, the driver handle and the
\* multi-database flag are what they were before the call and no exit hook
\* is registered.
C24_RejectedInitLeavesNoTrace ==
    (inits[1].pc = "rejected" /\ \A i \in InitIds \ {1} : inits[i].pc = "idle") =>
        /\ config = NoConfig
        /\ driver = NoDriver
        /\ multiDBSupport = FALSE
        /\ exitHooks = <<>>

\* C25: when the process has exited after every init call that was made has
\* resolved, close has been called on every driver instance that was created.
C25_EveryInstanceClosed ==
    (/\ exited
     /\ \E i \in InitIds : inits[i].pc = "resolved"
     /\ \A i \in InitIds : inits[i].pc \in {"idle", "resolved"}) =>
        \A i \in InitIds : \A k \in 1..Len(drivers[i]) : drivers[i][k].closeCalls >= 1

\* C26: no run of multipleStatements has invoked both commit and rollback on
\* its transaction.
C26_CommitXorRollback ==
    \A c \in CallIds :
        calls[c].kind = "multi" => ~(calls[c].commits >= 1 /\ calls[c].rollbacks >= 1)

\* C27: every driver instance an init call has verified was built from the
\* URL, credentials and options passed to that call, and an init call that
\* resolved did so with the server info of the server at its own URL.
C27_OwnArgumentsOnly ==
    \A i \in InitIds :
        inits[i].pc # "idle" =>
            /\ \A k \in 1..Len(drivers[i]) :
                  /\ drivers[i][k].url = inits[i].args.url
                  /\ drivers[i][k].auth = MakeConfig(inits[i].args).auth
                  /\ drivers[i][k].options = MakeConfig(inits[i].args).options
            /\ inits[i].pc = "resolved" => inits[i].value = ServerInfoOf(inits[i].args.url)

\* C28: the multi-database flag starts false, and no step of init, of a retry
\* or of a helper call takes it from true back to false.
C28_FlagMonotone ==
    /\ multiDBSupport = FALSE
    /\ [][multiDBSupport => multiDBSupport']_vars

\* C28 witness: an init against the 4.x server resolved first, an init
\* against the 3.x server resolved after it, a helper call has settled, and
\* the flag is true
C28_Witness ==
    /\ inits[1].pc = "resolved"
    /\ inits[1].value = ServerInfoOf("bolt://v4")
    /\ inits[2].pc = "resolved"
    /\ inits[2].value = ServerInfoOf("bolt://v3")
    /\ exitHooks = <<[by |-> 1], [by |-> 2]>>
    /\ Settled(1)
    /\ multiDBSupport = TRUE

\* C29: at every await and timer boundary the configuration and the driver
\* handle are set together, and the handle is an instance built from the URL,
\* the credentials and the options of the current configuration.
C29_HandleMatchesConfig ==
    /\ config.defined <=> driver # NoDriver
    /\ driver # NoDriver =>
          /\ DriverOf(driver).url = config.url
          /\ DriverOf(driver).auth = config.auth
          /\ DriverOf(driver).options = config.options

\* C29 witness: a second init call replaced the configuration while the first
\* waited for its retry timer, and the retry of the first call has built the
\* handle
C29_Witness ==
    /\ inits[1].pc = "verify"
    /\ inits[2].pc # "idle"
    /\ inits[2].args.url # inits[1].args.url
    /\ config = MakeConfig(inits[2].args)
    /\ driver = [by |-> 1, no |-> 2]
    /\ DriverOf(driver).url = config.url

C31_InitSettles ==
    /\ \A i \in InitIds :
          (inits[i].pc # "idle") ~> (inits[i].pc \in {"resolved", "rejected"})
    /\ [](\A i \in InitIds : inits[i].pc = "timer" => inits[i].numberOfTrials > 0)
    /\ [][\A i \in InitIds :
            (inits[i].pc = "timer" /\ inits'[i].pc = "verify") =>
                /\ inits'[i].numberOfTrials < inits[i].numberOfTrials
                /\ inits'[i].numberOfTrials >= 0]_vars

\* C31 witness: an init call has rejected with the connectivity error after
\* its counter went from 5 down to 0 over six failed attempts
C31_Witness ==
    \E i \in InitIds :
        /\ inits[i].pc = "rejected"
        /\ inits[i].reason = "connectivity error"
        /\ inits[i].numberOfTrials = 0
        /\ Failures(i) = InitialTrials + 1

\* C32: a multipleStatements call with an empty statement list whose
\* transaction has begun runs no statement and has invoked commit; rollback
\* is not invoked unless that commit rejected; once commit has resolved the
\* session has been closed, and the call then resolves with the empty
\* sequence unless the close rejects.
C32_EmptyListCommits ==
    \A c \in CallIds :
        (calls[c].kind = "multi" /\ calls[c].statements = <<>> /\ calls[c].begun = 1) =>
            /\ calls[c].ran = <<>>
            /\ calls[c].results = <<>>
            /\ calls[c].commits = 1
            /\ (calls[c].pc = "commit" \/ calls[c].committed) => calls[c].rollbacks = 0
            /\ calls[c].committed =>
                  /\ sessions[calls[c].session].closeCalls = 1
                  /\ calls[c].pc \in {"close", "resolved", "rejected"}
                  /\ calls[c].pc = "rejected" => calls[c].reason = "close error"
            /\ calls[c].pc = "resolved" =>
                  /\ calls[c].committed
                  /\ calls[c].value = Arr(<<>>)

\* C32 witness: after init resolved, a call with the empty list has resolved
\* with the empty sequence, with commit invoked once, no rollback and its
\* session closed
C32_Witness ==
    /\ inits[1].pc = "resolved"
    /\ \E c \in CallIds :
          /\ calls[c].kind = "multi"
          /\ calls[c].statements = <<>>
          /\ calls[c].pc = "resolved"
          /\ calls[c].value = Arr(<<>>)
          /\ calls[c].commits = 1
          /\ calls[c].rollbacks = 0
          /\ sessions[calls[c].session].driver = [by |-> 1, no |-> Len(drivers[1])]
          /\ sessions[calls[c].session].closeCalls = 1

====
